---- MODULE Spec2Model ----
(***************************************************************************)
(* A model of SampleAgentSelector.py: the capacitated assignment engine    *)
(* (assign_orders_to_warehouses), the distance matrix builder              *)
(* (build_distance_matrix), the routing orchestrator (solve_vrp) and the   *)
(* Streamlit dashboard (run_dashboard) that drives them.                   *)
(*                                                                         *)
(* Units.  Coordinates are integers in hundredths of a degree.             *)
(* haversine_km is tabulated, for the coordinates of the model, from the   *)
(* values the Python function returns, in millionths of a kilometre        *)
(* (floor(h * 10^6)); on these values the integer order is the float       *)
(* order, and int(h * 1000) = floor(h * 10^6) \div 1000.                   *)
(*                                                                         *)
(* Python objects that are shared by reference (the warehouse dicts) live  *)
(* in `heap`; lists of warehouses are sequences of heap addresses.         *)
(* Python lists are 0-based; sequences here are 1-based, except the        *)
(* distance matrix and the route node indices, which keep 0 for the depot. *)
(*                                                                         *)
(* Assignment records keep the fields that later code reads (order_id,     *)
(* warehouse_id, backorder, qty, lat, lon); the rounded cost and distance  *)
(* fields and the display names are outputs nothing reads back.            *)
(***************************************************************************)
EXTENDS Integers, Sequences, FiniteSets, TLC

VARIABLES
    heap,           \* address -> warehouse dict (id, lat, lon, inventory)
    warehouses,     \* the caller's warehouse list: sequence of addresses
    orders,         \* the order list: sequence of order dicts
    original,       \* history: the caller's warehouse dicts as first constructed
    pc,             \* position in assign_orders_to_warehouses
    whs,            \* local: the working list (sequence of addresses)
    assignments,    \* local: the result list being built
    k,              \* local: 1-based index of the order the loop is at
    result,         \* what the last finished call returned or raised
    ss_assignments, \* st.session_state["assignments"]
    ss_routes,      \* st.session_state["routes"]
    selected_wh,    \* the selectbox widget's value (0: not rendered yet)
    solved,         \* history: how the solver ended in the last Plan Route
    shown,          \* what the last script run drew on the map
    depot,          \* the depot last passed to build_distance_matrix
    customers,      \* the stop list last passed to build_distance_matrix
    matrix          \* the matrix build_distance_matrix last returned

vars == <<heap, warehouses, orders, original, pc, whs, assignments, k, result,
          ss_assignments, ss_routes, selected_wh, solved, shown,
          depot, customers, matrix>>

callVars == <<pc, whs, assignments, k, result>>
dashVars == <<ss_assignments, ss_routes, selected_wh, solved, shown>>
matrixVars == <<depot, customers, matrix>>

----------------------------------------------------------------------------
(* Bounds of the model *)

MaxWarehouses == 2
MaxOrders == 2
MaxStops == 3

(* Input domains *)

WarehousePoints == {<<2861, 7723>>, <<2870, 7710>>}
OrderPoints == {<<2862, 7724>>, <<2869, 7711>>}
Points == WarehousePoints \cup OrderPoints
Inventories == {0, 1, 2}
AnyQty == {-1, 0, 1, 2}
ValidQty == {1, 2}

----------------------------------------------------------------------------
(* Distance function *)

HaversineTable ==
    <<2861, 7723, 2861, 7723>> :> 0 @@
    <<2861, 7723, 2870, 7710>> :> 16157270 @@
    <<2861, 7723, 2862, 7724>> :> 1479617 @@
    <<2861, 7723, 2869, 7711>> :> 14705387 @@
    <<2870, 7710, 2861, 7723>> :> 16157270 @@
    <<2870, 7710, 2870, 7710>> :> 0 @@
    <<2870, 7710, 2862, 7724>> :> 16301142 @@
    <<2870, 7710, 2869, 7711>> :> 1479126 @@
    <<2862, 7724, 2861, 7723>> :> 1479617 @@
    <<2862, 7724, 2870, 7710>> :> 16301142 @@
    <<2862, 7724, 2862, 7724>> :> 0 @@
    <<2862, 7724, 2869, 7711>> :> 14882594 @@
    <<2869, 7711, 2861, 7723>> :> 14705387 @@
    <<2869, 7711, 2870, 7710>> :> 1479126 @@
    <<2869, 7711, 2862, 7724>> :> 14882594 @@
    <<2869, 7711, 2869, 7711>> :> 0

\* haversine_km(lat1, lon1, lat2, lon2), in millionths of a kilometre.
haversine_km(lat1, lon1, lat2, lon2) == HaversineTable[<<lat1, lon1, lat2, lon2>>]

----------------------------------------------------------------------------
(* assign_orders_to_warehouses *)

\* copy.deepcopy(warehouses): fresh dicts, equal field by field, at addresses
\* the caller's list does not hold.
deepcopy_alias(h, lst) == [heap |-> h, list |-> lst]

deepcopy(h, lst) ==
    LET n == Len(lst)
        base == n
    IN  [heap |-> [a \in 1..(2 * n) |-> IF a <= n THEN h[a] ELSE h[lst[a - base]]],
         list |-> [i \in 1..n |-> base + i]]

\* [(haversine_km(o, w), w) for w in whs]: pairs <<distance, address>>.
distances_of(h, ws, o) ==
    [i \in 1..Len(ws) |->
        <<haversine_km(o.lat, o.lon, h[ws[i]].lat, h[ws[i]].lon), ws[i]>>]

\* distances.sort(key=lambda x: x[0]): list.sort is stable, so an element's
\* place is the number of elements with a smaller key, or an equal key and
\* an earlier position.
sort_unstable(s) ==
    LET n == Len(s)
        place(i) == Cardinality({j \in 1..n :
                        \/ s[j][1] < s[i][1]
                        \/ (s[j][1] = s[i][1] /\ j > i)}) + 1
    IN  [p \in 1..n |-> s[CHOOSE i \in 1..n : place(i) = p]]

sort(s) ==
    LET n == Len(s)
        place(i) == Cardinality({j \in 1..n :
                        \/ s[j][1] < s[i][1]
                        \/ (s[j][1] = s[i][1] /\ j < i)}) + 1
    IN  [p \in 1..n |-> s[CHOOSE i \in 1..n : place(i) = p]]

Min(S) == CHOOSE x \in S : \A y \in S : x <= y

\* for d, w in distances: if w.get("inventory", 0) >= qty: ... break
\* The place in `ds` of the first warehouse that can serve qty; 0 if none.
first_fit_strict(h, ds, qty) ==
    LET fits == {p \in 1..Len(ds) : h[ds[p][2]].inventory > qty}
    IN  IF fits = {} THEN 0 ELSE Min(fits)

first_fit(h, ds, qty) ==
    LET fits == {p \in 1..Len(ds) : h[ds[p][2]].inventory >= qty}
    IN  IF fits = {} THEN 0 ELSE Min(fits)

\* The matching of one order (lines 22-33), for a non-empty working list:
\* the warehouse assigned, the backorder flag and the heap afterwards.
match_backorder_decrements(h, ws, o) ==
    LET qty == o.qty
        ds == sort(distances_of(h, ws, o))
        p == first_fit(h, ds, qty)
        w == IF p # 0 THEN ds[p][2] ELSE ds[1][2]
    IN  [assigned |-> w, backorder |-> (p = 0),
         heap |-> [h EXCEPT ![w].inventory = @ - qty]]

match(h, ws, o) ==
    LET qty == o.qty
        ds == sort(distances_of(h, ws, o))
        p == first_fit(h, ds, qty)
    IN  IF p # 0
        THEN [assigned |-> ds[p][2], backorder |-> FALSE,
              heap |-> [h EXCEPT ![ds[p][2]].inventory = @ - qty]]
        ELSE [assigned |-> ds[1][2], backorder |-> TRUE, heap |-> h]

\* assignments.append({...}) (lines 37-43)
append_unless_backorder(as, o, w, backorder) ==
    IF backorder THEN as
    ELSE Append(as, [order_id |-> o.id, warehouse_id |-> w.id, backorder |-> backorder,
                     qty |-> o.qty, lat |-> o.lat, lon |-> o.lon])

append_assignment(as, o, w, backorder) ==
    Append(as, [order_id |-> o.id, warehouse_id |-> w.id, backorder |-> backorder,
                qty |-> o.qty, lat |-> o.lat, lon |-> o.lon])

\* What a call returned or raised.
NoResult == [kind |-> "none", value |-> <<>>]
Returned(v) == [kind |-> "returned", value |-> v]
Raised(e) == [kind |-> e, value |-> <<>>]

\* whs = copy.deepcopy(warehouses); assignments = []  (lines 19-20)
Call ==
    /\ pc \in {"idle", "returned", "raised"}
    /\ LET c == deepcopy(heap, warehouses)
       IN  /\ heap' = c.heap
           /\ whs' = c.list
    /\ assignments' = <<>>
    /\ k' = 1
    /\ pc' = "loop"
    /\ UNCHANGED <<warehouses, orders, original, result, dashVars, matrixVars>>

\* One iteration of `for o in orders` (lines 21-43).  With an empty working
\* list nothing is assigned and distances[0] raises IndexError (line 32).
LoopBody ==
    /\ pc = "loop"
    /\ k <= Len(orders)
    /\ IF Len(whs) = 0
       THEN /\ pc' = "raised"
            /\ result' = Raised("IndexError")
            /\ UNCHANGED <<heap, assignments, k>>
       ELSE LET o == orders[k]
                m == match(heap, whs, o)
            IN  /\ heap' = m.heap
                /\ assignments' = append_assignment(assignments, o, heap[m.assigned],
                                                    m.backorder)
                /\ k' = k + 1
                /\ UNCHANGED <<pc, result>>
    /\ UNCHANGED <<warehouses, orders, original, whs, dashVars, matrixVars>>

\* return assignments (line 44)
Return ==
    /\ pc = "loop"
    /\ k > Len(orders)
    /\ pc' = "returned"
    /\ result' = Returned(assignments)
    /\ UNCHANGED <<heap, warehouses, orders, original, whs, assignments, k,
                   dashVars, matrixVars>>

----------------------------------------------------------------------------
(* Inputs *)

WarehouseDict(i, pt, inv) == [id |-> i, lat |-> pt[1], lon |-> pt[2], inventory |-> inv]
OrderDict(i, pt, qty) == [id |-> i, lat |-> pt[1], lon |-> pt[2], qty |-> qty]

\* n warehouse dicts with ids 1..n, at addresses 1..n, and m order dicts with
\* ids 1..m and quantities from `qtys`.
InitData(minWarehouses, qtys) ==
    /\ \E n \in minWarehouses..MaxWarehouses :
         \E pos \in [1..n -> WarehousePoints] :
           \E inv \in [1..n -> Inventories] :
             /\ heap = [i \in 1..n |-> WarehouseDict(i, pos[i], inv[i])]
             /\ warehouses = [i \in 1..n |-> i]
             /\ original = [i \in 1..n |-> WarehouseDict(i, pos[i], inv[i])]
    /\ \E m \in 0..MaxOrders :
         \E pos \in [1..m -> OrderPoints] :
           \E qty \in [1..m -> qtys] :
             orders = [i \in 1..m |-> OrderDict(i, pos[i], qty[i])]

CallIdle ==
    /\ pc = "idle"
    /\ whs = <<>>
    /\ assignments = <<>>
    /\ k = 0
    /\ result = NoResult

None == [is_none |-> TRUE, value |-> <<>>]
Some(v) == [is_none |-> FALSE, value |-> v]
NothingShown == [status |-> "none", depot |-> 0, stops |-> <<>>]

DashIdle ==
    /\ ss_assignments = None
    /\ ss_routes = None
    /\ selected_wh = 0
    /\ solved = "none"
    /\ shown = NothingShown

MatrixIdle ==
    /\ depot = [id |-> 0, lat |-> 0, lon |-> 0]
    /\ customers = <<>>
    /\ matrix = <<>>

\* assign_orders_to_warehouses called, any number of times, on any warehouse
\* list (the empty one included) and any order list (quantities <= 0 included).
Init == InitData(0, AnyQty) /\ CallIdle /\ DashIdle /\ MatrixIdle

Next == Call \/ LoopBody \/ Return

Spec == Init /\ [][Next]_vars

\* The whole call as one function of its arguments: the loop run to its end.
RECURSIVE run_loop(_, _, _, _, _)
run_loop(h, ws, os, i, as) ==
    IF i > Len(os) THEN [kind |-> "returned", value |-> as, heap |-> h]
    ELSE IF Len(ws) = 0 THEN [kind |-> "IndexError", value |-> <<>>, heap |-> h]
    ELSE LET m == match(h, ws, os[i])
         IN  run_loop(m.heap, ws, os, i + 1,
                      append_assignment(as, os[i], h[m.assigned], m.backorder))

assign_orders_to_warehouses(h, lst, os) ==
    LET c == deepcopy(h, lst)
    IN  run_loop(c.heap, c.list, os, 1, <<>>)

----------------------------------------------------------------------------
(* build_distance_matrix *)

\* int(x * 1000) for a distance x >= 0 held in millionths: truncation.
int_times_1000_rounded(d) == (d + 500) \div 1000

int_times_1000(d) == d \div 1000

\* locations = [depot] + customers; matrix[i][j] for 0 <= i, j < len(locations)
build_distance_matrix(dep, custs) ==
    LET n == 1 + Len(custs)
        location(i) == IF i = 0 THEN dep ELSE custs[i]
    IN  [i \in 0..(n - 1) |-> [j \in 0..(n - 1) |->
            IF i # j
            THEN int_times_1000(haversine_km(location(i).lat, location(i).lon,
                                             location(j).lat, location(j).lon))
            ELSE 0]]

BuildMatrix ==
    /\ DOMAIN matrix = {}
    /\ matrix' = build_distance_matrix(depot, customers)
    /\ UNCHANGED <<heap, warehouses, orders, original, callVars, dashVars,
                   depot, customers>>

Location(i, pt) == [id |-> i, lat |-> pt[1], lon |-> pt[2]]

\* build_distance_matrix applied to any depot and any list of stops.
InitMatrix ==
    /\ heap = <<>> /\ warehouses = <<>> /\ orders = <<>> /\ original = <<>>
    /\ CallIdle /\ DashIdle
    /\ \E pt \in Points : depot = Location(0, pt)
    /\ \E n \in 0..MaxStops :
         \E pos \in [1..n -> Points] :
           customers = [i \in 1..n |-> Location(i, pos[i])]
    /\ matrix = <<>>

NextMatrix == BuildMatrix

SpecMatrix == InitMatrix /\ [][NextMatrix]_vars

----------------------------------------------------------------------------
(* solve_vrp *)

\* What routing.SolveWithParameters can answer for n stops and one vehicle:
\* no solution, or a tour from the depot through every stop once.
SolverAnswers(n) ==
    {[found |-> FALSE, order |-> <<>>]} \cup
    {[found |-> TRUE, order |-> p] :
        p \in {q \in [1..n -> 1..n] : \A i, j \in 1..n : q[i] = q[j] => i = j}}

\* The routes solve_vrp builds from the solver's answer (lines 72-81).
solve_vrp(answer) ==
    IF answer.found THEN << <<0>> \o answer.order \o <<0>> >> ELSE <<>>

----------------------------------------------------------------------------
(* run_dashboard: one action per user interaction, each a whole script run *)

Truthy(opt) == ~opt.is_none /\ opt.value # <<>>

RECURSIVE sorted_seq(_)
sorted_seq(S) == IF S = {} THEN <<>> ELSE <<Min(S)>> \o sorted_seq(S \ {Min(S)})

\* sorted({a["warehouse_id"] for a in assignments})
wh_ids(as) == sorted_seq({as[i].warehouse_id : i \in 1..Len(as)})

\* next(w for w in warehouses if w["id"] == id)
warehouse_with_id(id) ==
    heap[warehouses[Min({i \in 1..Len(warehouses) : heap[warehouses[i]].id = id})]]

RECURSIVE customers_of(_, _)
\* [{"id": a["order_id"], "lat": .., "lon": ..} for a in assignments
\*  if a["warehouse_id"] == id]
customers_of(as, id) ==
    IF as = <<>> THEN <<>>
    ELSE (IF Head(as).warehouse_id = id
          THEN <<[id |-> Head(as).order_id, lat |-> Head(as).lat, lon |-> Head(as).lon]>>
          ELSE <<>>) \o customers_of(Tail(as), id)

NonZero(i) == i # 0

\* The map block (lines 124-142): the depot marker and the polyline's stops.
draw_map(routes, as) ==
    IF ~Truthy(routes) THEN NothingShown
    ELSE LET dep == warehouse_with_id(as[1].warehouse_id)
             custs == customers_of(as, dep.id)
             stops == SelectSeq(routes.value[1], NonZero)
         IN  IF \E j \in 1..Len(stops) : stops[j] > Len(custs)
             THEN [status |-> "IndexError", depot |-> 0, stops |-> <<>>]
             ELSE [status |-> "map", depot |-> dep.id,
                   stops |-> [j \in 1..Len(stops) |-> custs[stops[j]].id]]

\* The selectbox keeps its value while that value is among the options, and
\* starts at the first option.
selectbox(options) ==
    IF \E j \in 1..Len(options) : options[j] = selected_wh
    THEN selected_wh ELSE options[1]

\* "Select Source (Assign Orders)" clicked (lines 100-102, then the rest of
\* the script with routes reset).
ClickSelectSource ==
    LET run == assign_orders_to_warehouses(heap, warehouses, orders)
    IN  /\ run.kind = "returned"
        /\ heap' = run.heap
        /\ ss_assignments' = Some(run.value)
        /\ ss_routes' = None
        /\ selected_wh' = IF run.value # <<>> THEN selectbox(wh_ids(run.value))
                          ELSE selected_wh
        /\ solved' = "none"
        /\ shown' = draw_map(None, run.value)
        /\ UNCHANGED <<warehouses, orders, original, callVars, matrixVars>>

\* Another warehouse picked in the selectbox (line 115): the script reruns
\* with no button pressed.
ChangeSelection ==
    /\ Truthy(ss_assignments)
    /\ \E j \in 1..Len(wh_ids(ss_assignments.value)) :
         /\ wh_ids(ss_assignments.value)[j] # selected_wh
         /\ selected_wh' = wh_ids(ss_assignments.value)[j]
    /\ shown' = draw_map(ss_routes, ss_assignments.value)
    /\ UNCHANGED <<heap, warehouses, orders, original, callVars, matrixVars,
                   ss_assignments, ss_routes, solved>>

\* "Plan Route" clicked (lines 116-121, then the map block).
ClickPlanRoute ==
    /\ Truthy(ss_assignments)
    /\ LET dep == warehouse_with_id(selected_wh)
           custs == customers_of(ss_assignments.value, selected_wh)
           dm == build_distance_matrix(dep, custs)
       IN  /\ depot' = dep
           /\ customers' = custs
           /\ matrix' = dm
           /\ \E answer \in SolverAnswers(Cardinality(DOMAIN dm) - 1) :
                /\ solved' = IF answer.found THEN "solution" ELSE "no_solution"
                /\ ss_routes' = Some(solve_vrp(answer))
                /\ shown' = draw_map(Some(solve_vrp(answer)), ss_assignments.value)
    /\ UNCHANGED <<heap, warehouses, orders, original, callVars,
                   ss_assignments, selected_wh>>

\* The dashboard over any well-formed seed data: at least one warehouse,
\* positive quantities.
InitDash == InitData(1, ValidQty) /\ CallIdle /\ DashIdle /\ MatrixIdle

NextDash == ClickSelectSource \/ ChangeSelection \/ ClickPlanRoute

SpecDash == InitDash /\ [][NextDash]_vars

----------------------------------------------------------------------------
(* Properties of assign_orders_to_warehouses, under Spec *)

\* The dicts the caller's list holds.
CallerView == [i \in 1..Len(warehouses) |-> heap[warehouses[i]]]

\* A LoopBody step that matched orders[k].
Matched == pc = "loop" /\ pc' = "loop" /\ k' = k + 1

\* Distance from order o to the i-th warehouse of the working list, before
\* the step.
DistanceTo(o, i) == haversine_km(o.lat, o.lon, heap[whs[i]].lat, heap[whs[i]].lon)

\* The i-th warehouse comes before the j-th in ascending distance from o,
\* equal distances in input order.
Precedes(o, i, j) ==
    \/ DistanceTo(o, i) < DistanceTo(o, j)
    \/ (DistanceTo(o, i) = DistanceTo(o, j) /\ i < j)

RECURSIVE FulfilledQty(_, _)
\* The quantities of the non-backordered assignments of `as` attributed to
\* warehouse `id`, summed.
FulfilledQty(as, id) ==
    IF as = <<>> THEN 0
    ELSE (IF ~Head(as).backorder /\ Head(as).warehouse_id = id THEN Head(as).qty ELSE 0)
         + FulfilledQty(Tail(as), id)

RECURSIVE TotalQty(_)
TotalQty(os) == IF os = <<>> THEN 0 ELSE Head(os).qty + TotalQty(Tail(os))

\* C1: for every order matched, the assignment's backorder flag is true iff
\* no warehouse of the working copy has inventory >= the order's quantity at
\* that moment; when it is true the nearest warehouse (first by distance,
\* then by input order) is assigned and no inventory changes in that step.
C1_BackorderIffNoStock ==
    [][Matched =>
        LET o == orders[k]
            a == assignments'[Len(assignments')]
        IN  /\ a.backorder <=> \A i \in 1..Len(whs) : heap[whs[i]].inventory < o.qty
            /\ a.backorder =>
                 /\ \E i \in 1..Len(whs) :
                      /\ heap[whs[i]].id = a.warehouse_id
                      /\ \A j \in 1..Len(whs) : j # i => Precedes(o, i, j)
                 /\ \A a2 \in DOMAIN heap : heap'[a2].inventory = heap[a2].inventory
    ]_vars

\* A finished pass over two warehouses in which one order was backordered
\* against the second warehouse of the list and another order was fulfilled.
C1_Witness ==
    /\ pc = "returned"
    /\ Len(whs) = 2
    /\ \E i, j \in 1..Len(assignments) :
         /\ assignments[i].backorder /\ assignments[i].warehouse_id = 2
         /\ ~assignments[j].backorder

\* C2: orders are processed in input order (each step appends the assignment
\* of orders[k]); a non-backordered order goes to the first warehouse, in
\* ascending distance with ties in input order, whose inventory is >= the
\* quantity; exactly that warehouse's inventory drops by exactly the quantity.
C2_FirstFitInDistanceOrder ==
    [][Matched =>
        LET o == orders[k]
            a == assignments'[Len(assignments')]
        IN  /\ Len(assignments) = k - 1
            /\ assignments' = Append(assignments, a)
            /\ a.order_id = o.id
            /\ ~a.backorder =>
                 \E i \in 1..Len(whs) :
                   /\ heap[whs[i]].id = a.warehouse_id
                   /\ heap[whs[i]].inventory >= o.qty
                   /\ \A j \in 1..Len(whs) :
                        (j # i /\ Precedes(o, j, i)) => heap[whs[j]].inventory < o.qty
                   /\ heap'[whs[i]].inventory = heap[whs[i]].inventory - o.qty
                   /\ \A a2 \in DOMAIN heap : a2 # whs[i] => heap'[a2] = heap[a2]
    ]_vars

\* A finished pass over two warehouses at the same place (equal distances)
\* that could both serve the first order: the first of the list got it, was
\* thereby exhausted, and the second order went to the second warehouse.
C2_Witness ==
    /\ pc = "returned"
    /\ Len(whs) = 2
    /\ original[1].lat = original[2].lat
    /\ original[1].lon = original[2].lon
    /\ Len(assignments) = 2
    /\ ~assignments[1].backorder /\ assignments[1].warehouse_id = 1
    /\ ~assignments[2].backorder /\ assignments[2].warehouse_id = 2
    /\ assignments[1].qty >= 1 /\ assignments[2].qty >= 1
    /\ original[2].inventory >= assignments[1].qty

\* C3: with a non-empty warehouse list the call returns, and returns one
\* assignment per order: as many as there are orders, the k-th carrying the
\* k-th order's id, backordered or not.
C3_OneAssignmentPerOrder ==
    Len(warehouses) >= 1 =>
        /\ pc # "raised"
        /\ pc = "returned" =>
             /\ result.kind = "returned"
             /\ Len(result.value) = Len(orders)
             /\ \A i \in 1..Len(orders) : result.value[i].order_id = orders[i].id

\* A returned pass over two orders of which one was backordered and one not.
C3_Witness ==
    /\ pc = "returned"
    /\ Len(warehouses) >= 1
    /\ Len(orders) = 2
    /\ \E i, j \in 1..Len(result.value) :
         result.value[i].backorder /\ ~result.value[j].backorder

\* C4: the caller's warehouse dicts are, at every point of every call, what
\* they were before the first call, and every call starts its working copy
\* from those inventories.
C4_CallerWarehousesUntouched ==
    /\ CallerView = original
    /\ (pc = "loop" /\ k = 1) =>
         /\ Len(whs) = Len(original)
         /\ \A i \in 1..Len(whs) : heap[whs[i]].inventory = original[i].inventory

\* A later call about to start (an earlier one has returned, having
\* fulfilled an order of positive quantity from its own working copy).
C4_Witness ==
    /\ pc = "loop"
    /\ k = 1
    /\ result.kind = "returned"
    /\ \E i \in 1..Len(result.value) :
         ~result.value[i].backorder /\ result.value[i].qty >= 1

C6_EmptyWarehousesFail ==
    Len(warehouses) = 0 => pc # "returned"

\* C7: an order of quantity <= 0 gets no assignment and changes no
\* inventory; in particular no inventory ever grows.
C7_NonPositiveQtyRejected ==
    /\ \A i \in 1..Len(assignments) : assignments[i].qty >= 1
    /\ pc \in {"loop", "returned"} =>
         \A i \in 1..Len(whs) : heap[whs[i]].inventory <= original[i].inventory

\* The stepwise call and the call as one function agree.
StepwiseAgrees ==
    pc = "returned" =>
        result.value = assign_orders_to_warehouses(CallerView, warehouses, orders).value

----------------------------------------------------------------------------
(* Properties of the dashboard, under SpecDash *)

\* C8: when the solver finds no solution, solve_vrp does not hand back an
\* empty route list, and what the dashboard shows differs from what it shows
\* before any route was planned.
C8_NoSolutionIsReported ==
    solved = "no_solution" =>
        /\ ss_routes.value # <<>>
        /\ shown # NothingShown

\* C9: whenever routes are displayed, the map's depot is the depot passed to
\* build_distance_matrix for them, and node index i of the route is drawn as
\* the i-th stop of the stop list passed with it.
C9_RouteDrawnOverPlannedStops ==
    Truthy(ss_routes) =>
        LET stops == SelectSeq(ss_routes.value[1], NonZero)
        IN  /\ shown.status = "map"
            /\ shown.depot = depot.id
            /\ shown.stops = [j \in 1..Len(stops) |-> customers[stops[j]].id]

----------------------------------------------------------------------------
(* Properties of build_distance_matrix, under SpecMatrix *)

\* C10: the matrix is (n+1) x (n+1) over indices 0..n (0 the depot, k the
\* k-th stop), of naturals, zero on the diagonal, symmetric, and each
\* off-diagonal entry is the distance times 1000 truncated: entry <= metres
\* < entry + 1, the distance held in millionths of a kilometre.
C10_MatrixShape ==
    DOMAIN matrix # {} =>
        LET n == Len(customers)
            location(i) == IF i = 0 THEN depot ELSE customers[i]
            micro(i, j) == haversine_km(location(i).lat, location(i).lon,
                                        location(j).lat, location(j).lon)
        IN  /\ DOMAIN matrix = 0..n
            /\ \A i \in 0..n : DOMAIN matrix[i] = 0..n
            /\ \A i, j \in 0..n :
                 /\ matrix[i][j] \in Nat
                 /\ matrix[i][i] = 0
                 /\ matrix[i][j] = matrix[j][i]
                 /\ i # j =>
                      /\ matrix[i][j] * 1000 <= micro(i, j)
                      /\ micro(i, j) < (matrix[i][j] + 1) * 1000

\* A built matrix over at least two stops with an entry whose distance has a
\* fractional metre part of a half or more (rounding would differ).
C10_Witness ==
    /\ DOMAIN matrix # {}
    /\ Len(customers) >= 2
    /\ \E i, j \in DOMAIN matrix :
         /\ i # j
         /\ matrix[i][j] > 0
         /\ haversine_km((IF i = 0 THEN depot ELSE customers[i]).lat,
                         (IF i = 0 THEN depot ELSE customers[i]).lon,
                         (IF j = 0 THEN depot ELSE customers[j]).lat,
                         (IF j = 0 THEN depot ELSE customers[j]).lon) % 1000 >= 500

====
